---- MODULE Spec2Model ----
(***************************************************************************)
(* Model of the chatbot platform: the Express/Mongoose server of           *)
(* BACKEND_README.md (auth middleware, /auth/register, /projects, /chat)   *)
(* and the chat view of src/pages/Chat.tsx (sendMessage, file selection).  *)
(*                                                                         *)
(* Text is a sequence of atoms.  The atom " " is one whitespace character; *)
(* every other atom is a run of non-whitespace text.  Str("x") is the      *)
(* one-atom text of a string literal of the source.                        *)
(***************************************************************************)
EXTENDS Integers, Sequences, FiniteSets, TLC

VARIABLES
    users,        \* User collection: sequence of [_id, email]
    regs,         \* POST /auth/register handlers in progress or finished
    projects,     \* Project collection: sequence of [_id, name, systemPrompt, userId]
    creates,      \* POST /projects requests handled, with their responses
    reqs,         \* POST /chat requests: input, handler position, response
    upstream,     \* completion requests sent to the provider, in order
    messages,     \* Chat.tsx: messages state
    input,        \* Chat.tsx: input state
    isSending,    \* Chat.tsx: isSending state
    selectedFile, \* Chat.tsx: selectedFile state (0 = null)
    nextFile      \* next file the user can pick in the file dialog

vars == <<users, regs, projects, creates, reqs, upstream,
          messages, input, isSending, selectedFile, nextFile>>

serverVars == <<users, regs, projects, creates>>
clientVars == <<messages, input, isSending, selectedFile, nextFile>>

----
\* Bounds of the model

MaxReq == 2        \* POST /chat requests in one behaviour
MaxFiles == 2      \* file selections in one behaviour
MaxRegs == 3       \* POST /auth/register requests in one behaviour
MaxCreates == 2    \* POST /projects requests in one behaviour

----
\* Text

Str(s) == <<s>>

RECURSIVE trimStart(_)
trimStart(s) ==
    IF s = <<>> THEN s
    ELSE IF Head(s) = " " THEN trimStart(Tail(s)) ELSE s

RECURSIVE trimEnd(_)
trimEnd(s) ==
    IF s = <<>> THEN s
    ELSE IF s[Len(s)] = " " THEN trimEnd(SubSeq(s, 1, Len(s) - 1)) ELSE s

\* String.prototype.trim
trim(s) == trimEnd(trimStart(s))

\* JavaScript truthiness of a string: only '' is falsy
truthy(s) == s # <<>>

\* a || b on strings
orElse(a, b) == IF truthy(a) THEN a ELSE b

Fallback == Str("Please analyze the uploaded file")

\* What the user can have in the textarea
InputTexts == { <<>>, <<" ">>, <<"hi">> }

----
\* Session tokens and the auth middleware

NoToken == [kind |-> "missing", userId |-> 0, sig |-> FALSE, expired |-> FALSE]
Malformed == [kind |-> "malformed", userId |-> 0, sig |-> FALSE, expired |-> FALSE]
Jwt(u, sig, expired) == [kind |-> "jwt", userId |-> u, sig |-> sig, expired |-> expired]

\* Authorization headers a caller can present
Tokens ==
    { NoToken, Malformed, Jwt(1, FALSE, FALSE), Jwt(1, TRUE, TRUE),
      Jwt(1, TRUE, FALSE), Jwt(2, TRUE, FALSE) }

\* jwt.verify with the expiry check left out
jwtVerifyNoExpiry(token) == token.kind = "jwt" /\ token.sig

\* jwt.verify(token, JWT_SECRET): throws unless well-formed, signed with the
\* secret and not expired
jwtVerify(token) == token.kind = "jwt" /\ token.sig /\ ~token.expired

\* auth middleware: no token or a throwing jwt.verify -> 401, else next()
authOk(token) == token.kind # "missing" /\ jwtVerify(token)

Resp(status, message) == [status |-> status, message |-> message]
NoResp == Resp(0, <<>>)
Unauthorized == Resp(401, Str("Please authenticate"))

----
\* Credential store and POST /auth/register

Emails == {"a@x", "b@x"}

\* User.findOne({ email })
findUser(email) == { i \in DOMAIN users : users[i].email = email }

\* a registration request arrives
RegisterPost(email) ==
    /\ Len(regs) < MaxRegs
    /\ regs' = Append(regs, [email |-> email, pc |-> "findOne", resp |-> NoResp])
    /\ UNCHANGED <<users, projects, creates, reqs, upstream, clientVars>>

\* handler up to 'await bcrypt.hash(...)': the existence check
RegisterFindOne(r) ==
    /\ regs[r].pc = "findOne"
    /\ IF findUser(regs[r].email) # {}
       THEN regs' = [regs EXCEPT ![r].pc = "done",
                                 ![r].resp = Resp(400, Str("Email already registered"))]
       ELSE regs' = [regs EXCEPT ![r].pc = "save"]
    /\ UNCHANGED <<users, projects, creates, reqs, upstream, clientVars>>

\* user.save() under the unique index on email, then the 201 response; a
\* duplicate key makes save() throw into the catch block
RegisterSave(r) ==
    /\ regs[r].pc = "save"
    /\ IF findUser(regs[r].email) # {}
       THEN /\ regs' = [regs EXCEPT ![r].pc = "done",
                                    ![r].resp = Resp(500, Str("Server error"))]
            /\ UNCHANGED users
       ELSE /\ users' = Append(users, [_id |-> Len(users) + 1, email |-> regs[r].email])
            /\ regs' = [regs EXCEPT ![r].pc = "done",
                                    ![r].resp = Resp(201, Str(regs[r].email))]
    /\ UNCHANGED <<projects, creates, reqs, upstream, clientVars>>

----
\* Project collection

\* the lookup with the owner left out of the filter
findOneAnyOwner(projectId, userId) ==
    { i \in DOMAIN projects : projects[i]._id = projectId }

\* Project.findOne({ _id: projectId, userId }) : the matching documents
findOne(projectId, userId) ==
    { i \in DOMAIN projects :
        projects[i]._id = projectId /\ projects[i].userId = userId }

\* Mongoose 'required: true' on a String path: undefined, null and '' fail
requiredOk(s) == s # <<>>

ProjectTexts == { <<>>, <<" ">>, <<"You are a pirate.">> }

\* POST /projects: auth, then new Project(...).save()
CreateProject(token, name, systemPrompt) ==
    /\ Len(creates) < MaxCreates
    /\ IF ~authOk(token)
       THEN /\ creates' = Append(creates,
                 [token |-> token, name |-> name, systemPrompt |-> systemPrompt,
                  resp |-> Unauthorized])
            /\ UNCHANGED projects
       ELSE IF requiredOk(name) /\ requiredOk(systemPrompt)
       THEN /\ projects' = Append(projects,
                 [_id |-> Len(projects) + 1, name |-> name,
                  systemPrompt |-> systemPrompt, userId |-> token.userId])
            /\ creates' = Append(creates,
                 [token |-> token, name |-> name, systemPrompt |-> systemPrompt,
                  resp |-> Resp(201, name)])
       ELSE /\ creates' = Append(creates,
                 [token |-> token, name |-> name, systemPrompt |-> systemPrompt,
                  resp |-> Resp(500, Str("Server error"))])
            /\ UNCHANGED projects
    /\ UNCHANGED <<users, regs, reqs, upstream, clientVars>>

----
\* Conversation turns

Msg(role, content) == [role |-> role, content |-> content]

Reply == Str("Arr, matey")

\* messages arrays a caller other than the chat view can post
DirectMessages ==
    { << Msg("user", <<>>) >>,
      << Msg("user", <<"hi">>), Msg("assistant", Reply), Msg("user", <<"how are you">>) >> }

\* ids a caller can name: 1 and 2 are in the collection of Init, 3 is not.
\* All are ids the collection can hold (values that cast to ObjectId).
ProjectIdInputs == {1, 2, 3}

----
\* Upstream provider: what fetch() and response.json() can yield

Outcome(net, status, json, hasError, errorMessage, choices) ==
    [net |-> net, status |-> status, json |-> json, hasError |-> hasError,
     errorMessage |-> errorMessage, choices |-> choices]

NoOutcome == Outcome(FALSE, -1, FALSE, FALSE, <<>>, <<>>)

ProviderRaw == Str("No auth credentials found for key sk-or-v1")

Outcomes ==
    { Outcome(TRUE, 200, TRUE, FALSE, <<>>, <<Reply>>),      \* completion
      Outcome(FALSE, 0, FALSE, FALSE, <<>>, <<>>),           \* fetch rejects
      Outcome(TRUE, 502, FALSE, FALSE, <<>>, <<>>),          \* body is not JSON
      Outcome(TRUE, 401, TRUE, TRUE, ProviderRaw, <<>>),     \* provider error payload
      Outcome(TRUE, 200, TRUE, TRUE, <<>>, <<>>),            \* error payload, no message
      Outcome(TRUE, 200, TRUE, FALSE, <<>>, <<>>),           \* no first completion
      Outcome(TRUE, 500, TRUE, FALSE, <<>>, <<Reply>>) }     \* non-2xx, completion body

\* the payload with the system turn appended instead of prepended
UpstreamMessagesSystemLast(project, msgs) ==
    msgs \o << Msg("system", project.systemPrompt) >>

\* [ { role: 'system', content: project.systemPrompt }, ...messages ]
UpstreamMessages(project, msgs) ==
    << Msg("system", project.systemPrompt) >> \o msgs

\* The handler after 'await fetch(...)': response.json(), data.error,
\* data.choices[0].message.content, and the catch block
ChatResult(o) ==
    IF ~o.net \/ ~o.json THEN Resp(500, Str("Failed to get response"))
    ELSE IF o.hasError THEN Resp(500, orElse(o.errorMessage, Str("LLM error")))
    ELSE IF o.choices = <<>> THEN Resp(500, Str("Failed to get response"))
    ELSE Resp(200, o.choices[1])

----
\* POST /chat

\* A request as the handler reads it: the Authorization header and req.body.
\* messages is the array the caller serialised; body parsing is not modelled.
Request(from, token, projectId, msgs, file) ==
    [from |-> from, token |-> token, projectId |-> projectId, messages |-> msgs,
     file |-> file, pc |-> "auth", userId |-> 0, outcome |-> NoOutcome,
     resp |-> NoResp]

\* a caller other than the chat view posts to /chat
ChatPost(token, projectId, msgs) ==
    /\ Len(reqs) < MaxReq
    /\ reqs' = Append(reqs, Request("direct", token, projectId, msgs, 0))
    /\ UNCHANGED <<serverVars, upstream, clientVars>>

\* auth middleware
ChatAuth(r) ==
    /\ reqs[r].pc = "auth"
    /\ IF authOk(reqs[r].token)
       THEN reqs' = [reqs EXCEPT ![r].pc = "handler", ![r].userId = reqs[r].token.userId]
       ELSE reqs' = [reqs EXCEPT ![r].pc = "done", ![r].resp = Unauthorized]
    /\ UNCHANGED <<serverVars, upstream, clientVars>>

\* handler up to 'await fetch(...)': ownership lookup, then the upstream call
ChatHandler(r) ==
    /\ reqs[r].pc = "handler"
    /\ LET found == findOne(reqs[r].projectId, reqs[r].userId) IN
       IF found = {}
       THEN /\ reqs' = [reqs EXCEPT ![r].pc = "done",
                                    ![r].resp = Resp(404, Str("Project not found"))]
            /\ UNCHANGED upstream
       ELSE /\ upstream' = Append(upstream,
                 [req |-> r,
                  messages |-> UpstreamMessages(projects[CHOOSE i \in found : TRUE],
                                                reqs[r].messages)])
            /\ reqs' = [reqs EXCEPT ![r].pc = "await"]
    /\ UNCHANGED <<serverVars, clientVars>>

\* the handler with the upstream call repeated once when it fails
ChatReplyRetry(r, o) ==
    /\ reqs[r].pc = "await"
    /\ IF ChatResult(o).status = 200
       THEN /\ reqs' = [reqs EXCEPT ![r].pc = "done", ![r].outcome = o,
                                    ![r].resp = ChatResult(o)]
            /\ UNCHANGED upstream
       ELSE /\ upstream' = Append(upstream,
                 [req |-> r, messages |-> upstream[Len(upstream)].messages])
            /\ reqs' = [reqs EXCEPT ![r].pc = "done", ![r].outcome = o,
                                    ![r].resp = ChatResult(o)]
    /\ UNCHANGED <<serverVars, clientVars>>

\* handler from the provider's answer (or fetch's rejection) to the response
ChatReply(r, o) ==
    /\ reqs[r].pc = "await"
    /\ reqs' = [reqs EXCEPT ![r].pc = "done", ![r].outcome = o,
                            ![r].resp = ChatResult(o)]
    /\ UNCHANGED <<serverVars, upstream, clientVars>>

----
\* Chat.tsx

\* localStorage token and the :projectId route parameter of the open chat view
ClientToken == Jwt(1, TRUE, FALSE)
ClientProjectId == 1

\* onChange of the textarea
SetInput(s) ==
    /\ s # input
    /\ input' = s
    /\ UNCHANGED <<serverVars, reqs, upstream, messages, isSending, selectedFile, nextFile>>

\* handleFileSelect: the user picks a file in the dialog
handleFileSelect ==
    /\ nextFile <= MaxFiles
    /\ selectedFile' = nextFile
    /\ nextFile' = nextFile + 1
    /\ UNCHANGED <<serverVars, reqs, upstream, messages, input, isSending>>

\* the early return without the isSending test
sendGuardNoSending == ~truthy(trim(input)) /\ selectedFile = 0

\* the early return of sendMessage
sendGuard == (~truthy(trim(input)) /\ selectedFile = 0) \/ isSending

userMessage == Msg("user", orElse(input, Fallback))

\* sendMessage posting the messages state of the render instead of updatedMessages
sendMessageStale ==
    /\ Len(reqs) < MaxReq
    /\ IF sendGuard
       THEN UNCHANGED <<reqs, messages, input, isSending>>
       ELSE /\ isSending' = TRUE
            /\ messages' = Append(messages, userMessage)
            /\ input' = <<>>
            /\ reqs' = Append(reqs,
                 Request("client", ClientToken, ClientProjectId,
                         messages, selectedFile))
    /\ UNCHANGED <<serverVars, upstream, selectedFile, nextFile>>

\* sendMessage up to 'await axios.post(...)'
sendMessage ==
    /\ Len(reqs) < MaxReq
    /\ IF sendGuard
       THEN UNCHANGED <<reqs, messages, input, isSending>>
       ELSE /\ isSending' = TRUE
            /\ messages' = Append(messages, userMessage)
            /\ input' = <<>>
            /\ reqs' = Append(reqs,
                 Request("client", ClientToken, ClientProjectId,
                         Append(messages, userMessage), selectedFile))
    /\ UNCHANGED <<serverVars, upstream, selectedFile, nextFile>>

\* sendMessage after axios.post resolved (2xx), and the finally block
sendResolved(r) ==
    /\ reqs[r].from = "client" /\ reqs[r].pc = "done"
    /\ reqs[r].resp.status = 200
    /\ messages' = Append(messages, Msg("assistant", reqs[r].resp.message))
    /\ selectedFile' = 0
    /\ isSending' = FALSE
    /\ reqs' = [reqs EXCEPT ![r].pc = "closed"]
    /\ UNCHANGED <<serverVars, upstream, input, nextFile>>

\* sendMessage after axios.post rejected (non-2xx): catch and finally
sendRejected(r) ==
    /\ reqs[r].from = "client" /\ reqs[r].pc = "done"
    /\ reqs[r].resp.status # 200
    /\ isSending' = FALSE
    /\ reqs' = [reqs EXCEPT ![r].pc = "closed"]
    /\ UNCHANGED <<serverVars, upstream, messages, input, selectedFile, nextFile>>

----
\* Specifications

\* Two registered users, each owning one project; the chat view not yet used
InitProjects ==
    << [_id |-> 1, name |-> Str("Pirate"), systemPrompt |-> Str("You are a pirate."),
        userId |-> 1],
       [_id |-> 2, name |-> Str("Poet"), systemPrompt |-> Str("You are a poet."),
        userId |-> 2] >>

InitUsers ==
    << [_id |-> 1, email |-> "a@x"], [_id |-> 2, email |-> "b@x"] >>

InitClient ==
    /\ messages = <<>>
    /\ input = <<>>
    /\ isSending = FALSE
    /\ selectedFile = 0
    /\ nextFile = 1

Init ==
    /\ users = InitUsers
    /\ regs = <<>>
    /\ projects = InitProjects
    /\ creates = <<>>
    /\ reqs = <<>>
    /\ upstream = <<>>
    /\ InitClient

ServerChat ==
    \/ \E r \in DOMAIN reqs : ChatAuth(r)
    \/ \E r \in DOMAIN reqs : ChatHandler(r)
    \/ \E r \in DOMAIN reqs, o \in Outcomes : ChatReply(r, o)

\* The server under arbitrary callers of POST /chat
Next ==
    \/ \E t \in Tokens, p \in ProjectIdInputs, m \in DirectMessages : ChatPost(t, p, m)
    \/ ServerChat

Spec == Init /\ [][Next]_vars

\* The chat view talking to the server
NextClient ==
    \/ \E s \in InputTexts : SetInput(s)
    \/ handleFileSelect
    \/ sendMessage
    \/ \E r \in DOMAIN reqs : sendResolved(r)
    \/ \E r \in DOMAIN reqs : sendRejected(r)
    \/ ServerChat

SpecClient == Init /\ [][NextClient]_vars

\* The same, with the scheduling the code guarantees: a received request runs
\* through the middleware and the handler, and a settled axios promise runs
\* its continuation.  Nothing obliges the provider to answer, and neither
\* fetch nor axios.post is given a timeout or an abort signal.
SpecClientFair ==
    /\ SpecClient
    /\ WF_vars(\E r \in DOMAIN reqs : ChatAuth(r))
    /\ WF_vars(\E r \in DOMAIN reqs : ChatHandler(r))
    /\ WF_vars(\E r \in DOMAIN reqs : sendResolved(r))
    /\ WF_vars(\E r \in DOMAIN reqs : sendRejected(r))

\* Registration against an empty credential store
InitReg ==
    /\ users = <<>>
    /\ regs = <<>>
    /\ projects = <<>>
    /\ creates = <<>>
    /\ reqs = <<>>
    /\ upstream = <<>>
    /\ InitClient

NextReg ==
    \/ \E e \in Emails : RegisterPost(e)
    \/ \E r \in DOMAIN regs : RegisterFindOne(r)
    \/ \E r \in DOMAIN regs : RegisterSave(r)

SpecReg == InitReg /\ [][NextReg]_vars

\* Project creation and chat by two registered users, from an empty registry
InitProj ==
    /\ users = InitUsers
    /\ regs = <<>>
    /\ projects = <<>>
    /\ creates = <<>>
    /\ reqs = <<>>
    /\ upstream = <<>>
    /\ InitClient

ProjTokens == { NoToken, Jwt(1, TRUE, FALSE), Jwt(2, TRUE, FALSE) }

NextProj ==
    \/ \E t \in ProjTokens, n \in ProjectTexts, p \in ProjectTexts : CreateProject(t, n, p)
    \/ \E t \in ProjTokens, p \in ProjectIdInputs : ChatPost(t, p, << Msg("user", <<"hello">>) >>)
    \/ ServerChat

SpecProj == InitProj /\ [][NextProj]_vars

----
\* Properties

\* upstream calls made for request r
UpstreamFor(r) == { k \in DOMAIN upstream : upstream[k].req = r }

\* the token is one the spec's verify accepts
TokenValid(t) == t.kind = "jwt" /\ t.sig /\ ~t.expired

\* user u owns project id p
Owns(u, p) == \E i \in DOMAIN projects : projects[i]._id = p /\ projects[i].userId = u

\* project id p is in the registry
Exists(p) == \E i \in DOMAIN projects : projects[i]._id = p

PromptOf(p) == projects[CHOOSE i \in DOMAIN projects : projects[i]._id = p].systemPrompt

Last(s) == s[Len(s)]

NotFound == Resp(404, Str("Project not found"))

\* the handler has decided request r (ownership lookup done)
Decided(r) == reqs[r].pc \in {"await", "done", "closed"}

C4_Counterexample ==
    \A k \in DOMAIN upstream :
        LET q == reqs[upstream[k].req]
        IN ~( /\ Last(q.messages).role = "user"
              /\ Last(q.messages).content = <<>>
              /\ q.file = 0 )

\* C5: an accepted send with a file selected and text that trims to empty has
\* the placeholder as content; an accepted send with non-empty text has that
\* text as content.
C5_Counterexample ==
    [][Len(reqs') > Len(reqs) =>
         LET t == Last(Last(reqs').messages)
         IN /\ (selectedFile # 0 /\ trim(input) = <<>>) => t.content = Fallback
            /\ trim(input) # <<>> => t.content = input]_vars

\* the provider's answer is an error
IsUpstreamError(o) ==
    \/ ~o.net
    \/ o.status \notin 200..299
    \/ ~o.json
    \/ o.hasError
    \/ o.choices = <<>>

\* C6: every upstream error is answered 500, never 200, with a message that
\* contains none of the provider's error text.
C6_Counterexample ==
    \A r \in DOMAIN reqs :
        (reqs[r].pc = "done" /\ UpstreamFor(r) # {} /\ IsUpstreamError(reqs[r].outcome))
        => /\ reqs[r].resp.status = 500
           /\ \A i \in DOMAIN reqs[r].resp.message :
                \A j \in DOMAIN reqs[r].outcome.errorMessage :
                    reqs[r].resp.message[i] # reqs[r].outcome.errorMessage[j]

\* C7: at most one registration of an email succeeds, every other one fails
\* with 400, and the store never holds two users with one email.
C7_Counterexample ==
    /\ \A i, j \in DOMAIN users : users[i].email = users[j].email => i = j
    /\ \A e \in Emails :
          Cardinality({ r \in DOMAIN regs : regs[r].email = e /\ regs[r].resp.status = 201 }) <= 1
    /\ \A r \in DOMAIN regs :
          (regs[r].pc = "done" /\ regs[r].resp.status # 201) => regs[r].resp.status = 400

\* C8: a selected file is included in at most one /chat request, and is no
\* longer selected once the request of its turn has completed.
C8_Counterexample ==
    /\ \A f \in 1..MaxFiles :
          Cardinality({ r \in DOMAIN reqs : reqs[r].file = f }) <= 1
    /\ \A r \in DOMAIN reqs :
          (reqs[r].file # 0 /\ reqs[r].pc = "closed") => selectedFile # reqs[r].file

\* C9: a project creation whose name or system prompt trims to empty is
\* answered 400 and stores nothing; every stored project has a non-empty
\* trimmed system prompt; every upstream system turn has non-empty content.
C9_Counterexample ==
    /\ \A c \in DOMAIN creates :
          (TokenValid(creates[c].token) /\ (trim(creates[c].name) = <<>> \/ trim(creates[c].systemPrompt) = <<>>))
          => creates[c].resp.status = 400
    /\ \A i \in DOMAIN projects : trim(projects[i].systemPrompt) # <<>>
    /\ \A k \in DOMAIN upstream : trim(upstream[k].messages[1].content) # <<>>

\* C10: a /chat request has at most one upstream call whatever its outcome,
\* and a new /chat request of the chat view appears only in a step in which
\* the user sends: isSending goes from false to true and one new user turn is
\* appended to messages.
C10_Theorem ==
    /\ [](\A r \in DOMAIN reqs : Cardinality(UpstreamFor(r)) <= 1)
    /\ [][Len(reqs') > Len(reqs) =>
            /\ ~isSending /\ isSending'
            /\ Len(messages') = Len(messages) + 1
            /\ Last(messages').role = "user"
            /\ Len(reqs') = Len(reqs) + 1]_vars

\* C10 witness: a failed turn of the chat view had exactly one upstream call,
\* and the user's next send had its own
C10_Witness ==
    \E r1, r2 \in DOMAIN reqs :
        /\ r1 < r2
        /\ reqs[r1].pc = "closed" /\ reqs[r1].resp.status = 500
        /\ Cardinality(UpstreamFor(r1)) = 1
        /\ Cardinality(UpstreamFor(r2)) = 1

\* C11: every /chat request eventually receives a response even when the
\* provider never answers, with at most one upstream call and the user and
\* project stores unchanged, and isSending eventually returns to false after
\* every send.
C11_Counterexample ==
    /\ \A r \in 1..MaxReq :
          [](r \in DOMAIN reqs =>
                <>(r \in DOMAIN reqs /\ reqs[r].pc \in {"done", "closed"}))
    /\ [](isSending => <>(~isSending))
    /\ [](\A r \in DOMAIN reqs : Cardinality(UpstreamFor(r)) <= 1)
    /\ [][users' = users /\ projects' = projects]_vars

\* /chat requests of the chat view that have not yet succeeded or failed
Outstanding == { r \in DOMAIN reqs : reqs[r].from = "client" /\ reqs[r].pc # "closed" }

\* C12: at most one /chat request of the chat view is outstanding; isSending
\* is true exactly while one is; and while isSending is true no step issues a
\* request or appends a user turn, and input changes only by typing (a step
\* that changes nothing else of the chat view).
C12_Theorem ==
    /\ [](Cardinality(Outstanding) <= 1)
    /\ [](isSending <=> Outstanding # {})
    /\ [][isSending =>
            /\ Len(reqs') = Len(reqs)
            /\ messages' # messages =>
                  /\ ~isSending'
                  /\ messages' = Append(messages, Msg("assistant", Last(messages').content))
            /\ input' # input =>
                  /\ messages' = messages /\ isSending' /\ selectedFile' = selectedFile]_vars

\* C12 witness: a request is outstanding and the user has typed text, so a
\* click or Enter invokes sendMessage with only isSending holding it back
C12_Witness ==
    /\ isSending
    /\ Cardinality(Outstanding) = 1
    /\ truthy(trim(input))
    /\ Len(reqs) < MaxReq

\* the send of the messages array m was answered with a failure
FailedSend(m) ==
    \E r \in DOMAIN reqs :
        /\ reqs[r].from = "client" /\ reqs[r].messages = m
        /\ reqs[r].pc = "closed" /\ reqs[r].resp.status # 200

\* C13 as claimed: every messages array the chat view submits starts and ends
\* with a user turn and no two consecutive turns have the same role.
C13_Counterexample ==
    \A r \in DOMAIN reqs :
        reqs[r].from = "client" =>
            LET m == reqs[r].messages
            IN /\ m # <<>>
               /\ m[1].role = "user" /\ Last(m).role = "user"
               /\ \A i \in 1..(Len(m) - 1) : m[i].role # m[i + 1].role

\* C13 amended: every messages array the chat view submits starts and ends
\* with a user turn, never has two consecutive assistant turns, and has two
\* consecutive user turns only where the send of the first of them failed.
C13_Theorem ==
    \A r \in DOMAIN reqs :
        reqs[r].from = "client" =>
            LET m == reqs[r].messages
            IN /\ m # <<>>
               /\ m[1].role = "user" /\ Last(m).role = "user"
               /\ \A i \in 1..(Len(m) - 1) :
                     /\ ~(m[i].role = "assistant" /\ m[i + 1].role = "assistant")
                     /\ (m[i].role = "user" /\ m[i + 1].role = "user")
                           => FailedSend(SubSeq(m, 1, i))

\* C13 witness: an array submitted after a failed send, with both user turns
C13_Witness ==
    \E r \in DOMAIN reqs :
        /\ reqs[r].from = "client"
        /\ Len(reqs[r].messages) = 2
        /\ reqs[r].messages[1].role = "user" /\ reqs[r].messages[2].role = "user"
        /\ FailedSend(SubSeq(reqs[r].messages, 1, 1))

====
